---------------------------- MODULE Spec2Model ----------------------------
(***************************************************************************)
(* Episode clustering and keyword extraction (apps/webapp/python).         *)
(*                                                                         *)
(* main.py           lightweight mode: UMAP, HDBSCAN, then a merge of the  *)
(*                   TF-IDF and the raw-count rankings per cluster.        *)
(* persona_topics.py full topic-modeling mode: BERTopic.                   *)
(*                                                                         *)
(* A document's text is the sequence of features (uni/bigrams left after   *)
(* stop-word removal) the vectorizers' analyzer yields for it; a feature   *)
(* is a number, and the numeric order of features is the alphabetical      *)
(* order get_feature_names_out() sorts them in.  Real-valued weights are   *)
(* kept in fixed point (thousandths).  Python's 0-based indices are        *)
(* 1-based here.                                                           *)
(***************************************************************************)
EXTENDS Integers, Sequences, FiniteSets, TLC

VARIABLES
    pc,                 \* position of the run
    tool,               \* "main" | "persona_topics"
    entry,              \* "cli" (main()) | "call" / "repeat" (run_hdbscan_clustering
                        \*   called directly, once / twice) | "report"
                        \*   (print_cluster_results called directly)
    min_cluster_size,   \* --min-cluster-size / --min-topic-size
    quiet,              \* --json (main.py) / --quiet (persona_topics.py)
    conn,               \* "none" | "open" | "abandoned" | "closed"
    closes,             \* number of times the connection was closed
    uuids,              \* episode ids, by document index
    contents,           \* episode texts, by document index
    embeddings,         \* number of rows of the embedding matrix
    labels,             \* cluster label per embedding row
    probabilities,      \* clusterer.probabilities_, per embedding row
    unique_clusters,    \* main.py:206
    noise_count,        \* main.py:207
    feature_names,      \* count_feature_names (= tfidf_feature_names)
    cluster_locals,     \* per cluster: avg_counts, top_count_indices,
                        \*   avg_tfidf, top_tfidf_indices (main.py:250-256)
    keywords_dict,      \* cluster id -> keyword list
    topic_model,        \* the fitted BERTopic model: topic id -> its words
    output,             \* what build_json_output returned
    report,             \* what print_cluster_results listed
    num_clusters,       \* the cluster count print_cluster_results printed (main.py:304)
    written,            \* what the process wrote to stdout / stderr, in order
    stages,             \* the stages that have computed, in order
    error,              \* the exception that ended the run, or "none"
    exit_code,          \* process exit status, -1 while running
    tie_order,          \* the order argsort gives equal weights in this
                        \*   process, "none" until the first sort
    previous,           \* what the earlier invocation in this process returned
    replay              \* the embeddings passed are those of the earlier invocation

vars == <<pc, tool, entry, min_cluster_size, quiet, conn, closes, uuids, contents,
          embeddings, labels, probabilities, unique_clusters, noise_count,
          feature_names, cluster_locals, keywords_dict, topic_model, output,
          report, num_clusters, written, stages, error, exit_code, tie_order, previous, replay>>

-----------------------------------------------------------------------------
(* Bounds and program constants *)

MaxDocs == 4

\* Documents of a call that is made twice in one process.
MaxRepeatDocs == 2

\* Documents handed to print_cluster_results when it is called on its own.
MaxReportDocs == 5

n_neighbors == 15
min_df == 1
max_df_pct == 95
max_features == 1000
top_n_words == 15
TopTfidf == 7
TopRanked == 15
MaxKeywords == 10
\* cluster_episodes[:3]
SampleSize == 3
\* One unit of a fixed-point weight is a thousandth.
Milli == 10 * 100

NOISE == -1

ClusterIds == {0, 1}

\* The --min-cluster-size values tried: the smallest HDBSCAN accepts and the
\* option's default.
MinClusterSizes == {2, 8}

\* Texts the store may hold: one of stop words only, two long ones that
\* share features 6..8, and a short one with a feature of its own.
TextPool ==
    << << >>,
       <<1, 1, 2, 3, 4, 5, 6, 7, 8>>,
       <<6, 7, 8, 9, 10, 11, 11, 11>>,
       <<3, 12>> >>

\* The document lists of n texts, up to the order of the documents (a run on
\* a reordered list is the same run with the rows of every array reordered).
Corpora(n) ==
    {[i \in 1..n |-> TextPool[k[i]]] :
        k \in {x \in [1..n -> DOMAIN TextPool] :
                    \A i \in 1..n : i < n => x[i] <= x[i + 1]}}

\* Per-record vector lengths the store may hold.
Dims == {3, 4}

-----------------------------------------------------------------------------
(* Sequences and Python slicing *)

Range(s) == {s[i] : i \in DOMAIN s}

Min(a, b) == IF a <= b THEN a ELSE b

Max(a, b) == IF a >= b THEN a ELSE b

\* s[:n]
FirstN(s, n) == SubSeq(s, 1, Min(n, Len(s)))

\* s[-n:]
LastN(s, n) == SubSeq(s, Max(1, Len(s) - n + 1), Len(s))

\* The sequence s with every element computed (a tuple).
Concrete(s) == SubSeq(s, 1, Len(s))

\* s[::-1]
Reverse(s) == Concrete([i \in 1..Len(s) |-> s[Len(s) + 1 - i]])

RECURSIVE SumTo(_, _)
SumTo(s, n) == IF n = 0 THEN 0 ELSE s[n] + SumTo(s, n - 1)

SumSeq(s) == SumTo(s, Len(s))

\* The ascending sequence of a finite set of integers.
RECURSIVE SortedSeq(_)
SortedSeq(S) ==
    IF S = {} THEN << >>
    ELSE LET m == CHOOSE x \in S : \A y \in S : x <= y
         IN  <<m>> \o SortedSeq(S \ {m})

\* floor(sqrt(x)) by bisection on lo..hi
RECURSIVE ISqrtIn(_, _, _)
ISqrtIn(x, lo, hi) ==
    IF lo >= hi THEN lo
    ELSE LET mid == (lo + hi + 1) \div 2
         IN  IF mid * mid <= x THEN ISqrtIn(x, mid, hi)
                               ELSE ISqrtIn(x, lo, mid - 1)

ISqrt(x) == ISqrtIn(x, 0, 46340)

-----------------------------------------------------------------------------
(* sklearn's vectorizers as main.py:218-237 configures them *)

\* How often feature t occurs in a text (the term count CountVectorizer records).
CountOf(text, t) == Cardinality({i \in DOMAIN text : text[i] = t})

AllFeatures(docs) == UNION {Range(docs[i]) : i \in DOMAIN docs}

\* Number of documents feature t occurs in.
DocFreq(docs, t) == Cardinality({i \in DOMAIN docs : CountOf(docs[i], t) > 0})

TotalFreq(docs, t) == SumSeq([i \in DOMAIN docs |-> CountOf(docs[i], t)])

\* min_df / max_df pruning, then the max_features cap by aggregate frequency.
LimitFeatures(docs, mindf, maxdfpct, maxfeat) ==
    LET kept == {t \in AllFeatures(docs) :
                    /\ DocFreq(docs, t) >= mindf
                    /\ DocFreq(docs, t) * 100 <= maxdfpct * Len(docs)}
    IN  IF Cardinality(kept) <= maxfeat THEN kept
        ELSE CHOOSE S \in SUBSET kept :
                /\ Cardinality(S) = maxfeat
                /\ \A s \in S : \A t \in kept \ S :
                       TotalFreq(docs, s) >= TotalFreq(docs, t)

\* The vocabulary both vectorizers of main.py learn: same stop words, n-gram
\* range, min_df, max_df and max_features.
Vocabulary(docs) == LimitFeatures(docs, min_df, max_df_pct, max_features)

\* fit_transform raises ValueError when no feature is left.
VectorizerRaises(docs) == Vocabulary(docs) = {}

\* get_feature_names_out(): the vocabulary in alphabetical order.
FeatureNames(docs) == SortedSeq(Vocabulary(docs))

\* count_matrix: one row per document, one column per feature.
CountMatrix(docs, names) ==
    Concrete([i \in DOMAIN docs |->
                Concrete([j \in DOMAIN names |-> CountOf(docs[i], names[j])])])

\* 1000 * ln(k), k = 1..8
LnMilli == <<0, 693, 1099, 1386, 1609, 1792, 1946, 2079>>

\* smooth idf: ln((1 + n) / (1 + df)) + 1
Idf(docs, t) == LnMilli[1 + Len(docs)] - LnMilli[1 + DocFreq(docs, t)] + Milli

\* tfidf_matrix: tf * idf, each row scaled to unit L2 norm.
TfidfMatrix(docs, names) ==
    LET idf == Concrete([j \in DOMAIN names |-> Idf(docs, names[j])])
    IN  Concrete([i \in DOMAIN docs |->
            LET raw  == Concrete([j \in DOMAIN names |-> CountOf(docs[i], names[j]) * idf[j]])
                norm == ISqrt(SumSeq(Concrete([j \in DOMAIN names |-> raw[j] * raw[j]])))
            IN  Concrete([j \in DOMAIN names |->
                            IF norm = 0 THEN 0 ELSE (raw[j] * Milli) \div norm])])

\* The mean of the cluster's rows, each weighted by its membership probability
MeanRows_Weighted(matrix, rows, ncols, scale) ==
    Concrete([j \in 1..ncols |->
        (SumSeq(Concrete([k \in 1..Len(rows) |->
                    matrix[rows[k]][j] * probabilities[rows[k]]])) * scale)
            \div (Len(rows) * Milli)])

\* matrix[cluster_mask].mean(axis=0), flattened
MeanRows(matrix, rows, ncols, scale) ==
    Concrete([j \in 1..ncols |->
        (SumSeq(Concrete([k \in 1..Len(rows) |-> matrix[rows[k]][j]])) * scale)
            \div Len(rows)])

-----------------------------------------------------------------------------
(* numpy.argsort: ascending; the order of equal weights is the sort           *)
(* algorithm's own, "low" (lower index first) or "high" (higher index first). *)

TieBreaks == {"low", "high"}

Before(w, tie, i, j) ==
    \/ w[i] < w[j]
    \/ w[i] = w[j] /\ i # j /\ (IF tie = "low" THEN i < j ELSE i > j)

Argsort(w, tie) ==
    LET rank == Concrete([i \in 1..Len(w) |->
                    Cardinality({j \in 1..Len(w) : Before(w, tie, j, i)})])
    IN  Concrete([p \in 1..Len(w) |-> CHOOSE i \in 1..Len(w) : rank[i] = p - 1])

\* w.argsort()[-15:][::-1] with the indices of weight 0 dropped
TopIndices_Positive(w, tie) ==
    SelectSeq(Reverse(LastN(Argsort(w, tie), TopRanked)), LAMBDA i : w[i] > 0)

\* w.argsort()[-15:], the [::-1] forgotten
TopIndices_Ascending(w, tie) == LastN(Argsort(w, tie), TopRanked)

\* w.argsort()[-15:][::-1]
TopIndices(w, tie) == Reverse(LastN(Argsort(w, tie), TopRanked))

-----------------------------------------------------------------------------
(* The merge of the two rankings, main.py:258-278 *)

\* seen = set() kept from the earlier invocation instead of created anew
NoKeywords_Carried ==
    [combined |-> << >>,
     seen     |-> IF previous = << >> THEN {}
                  ELSE UNION {Range(previous[1].keywords[c]) :
                                c \in DOMAIN previous[1].keywords}]

\* combined_keywords = []; seen = set()
NoKeywords == [combined |-> << >>, seen |-> {}]

\* The merge step without the `seen` test
AddKeyword_NoSeen(acc, kw) ==
    [combined |-> Append(acc.combined, kw), seen |-> acc.seen \cup {kw}]

AddKeyword(acc, kw) ==
    IF kw \notin acc.seen
    THEN [combined |-> Append(acc.combined, kw), seen |-> acc.seen \cup {kw}]
    ELSE acc

\* for idx in top_tfidf_indices[:7]
RECURSIVE AddTfidf(_, _, _)
AddTfidf(idxs, names, acc) ==
    IF idxs = << >> THEN acc
    ELSE AddTfidf(Tail(idxs), names, AddKeyword(acc, names[Head(idxs)]))

\* for idx in top_count_indices, leaving the loop at 10 keywords
RECURSIVE AddCount(_, _, _)
AddCount(idxs, names, acc) ==
    IF idxs = << >> \/ Len(acc.combined) >= MaxKeywords THEN acc
    ELSE AddCount(Tail(idxs), names, AddKeyword(acc, names[Head(idxs)]))

\* The merge with neither the break at 10 keywords nor the final [:10]
CombineKeywords_NoCap(top_tfidf, top_count, tfidf_names, count_names) ==
    AddTfidf(top_count, count_names,
             AddTfidf(FirstN(top_tfidf, TopTfidf), tfidf_names, NoKeywords)).combined

CombineKeywords(top_tfidf, top_count, tfidf_names, count_names) ==
    FirstN(AddCount(top_count, count_names,
                    AddTfidf(FirstN(top_tfidf, TopTfidf), tfidf_names, NoKeywords)).combined,
           MaxKeywords)

\* set(labels)
LabelSet(lab) == Range(lab)

\* for cluster_id in set(labels), with the noise cluster not skipped
KeywordClusters_NoSkip(lab) == LabelSet(lab)

\* for cluster_id in set(labels), skipping with "cluster_id <= 0" instead of
\* "cluster_id == -1"
KeywordClusters_SkipZero(lab) == {c \in LabelSet(lab) : c > 0}

\* for cluster_id in set(labels): if cluster_id == -1: continue
KeywordClusters(lab) == LabelSet(lab) \ {NOISE}

\* The indices i with lab[i] = c, ascending (the True entries of labels == c).
MaskRows(lab, c) == SortedSeq({i \in DOMAIN lab : lab[i] = c})

\* The loop of main.py:241-278 for cluster c, up to the two rankings.
ClusterLocals(count_matrix, tfidf_matrix, lab, c, ncols, tie) ==
    LET rows       == MaskRows(lab, c)
        avg_counts == MeanRows(count_matrix, rows, ncols, Milli)
        avg_tfidf  == MeanRows(tfidf_matrix, rows, ncols, 1)
    IN  [avg_counts        |-> avg_counts,
         top_count_indices |-> TopIndices(avg_counts, tie),
         avg_tfidf         |-> avg_tfidf,
         top_tfidf_indices |-> TopIndices(avg_tfidf, tie)]

-----------------------------------------------------------------------------
(* The libraries' results *)

EpisodeId(i) == 100 + i

CountLabel(lab, c) == Cardinality({i \in DOMAIN lab : lab[i] = c})

\* len(set(labels)) - (1 if -1 in labels else 0), without the correction
UniqueClusters_NoNoiseCorrection(lab) == Cardinality(LabelSet(lab))

\* len(set(labels)) - (1 if -1 in labels else 0)
UniqueClusters(lab) ==
    Cardinality(LabelSet(lab)) - (IF NOISE \in LabelSet(lab) THEN 1 ELSE 0)

\* (labels == -1).sum()
NoiseCount(lab) == CountLabel(lab, NOISE)

\* A label per point with min_cluster_size not passed on to the clusterer
Labelings_AnySize(n, mcs) == [1..n -> ClusterIds \cup {NOISE}]

\* What HDBSCAN (min_cluster_size = mcs) may return for n points: a label per
\* point, -1 for noise, every cluster holding at least mcs points.
Labelings(n, mcs) ==
    {lab \in [1..n -> ClusterIds \cup {NOISE}] :
        \A c \in ClusterIds : CountLabel(lab, c) = 0 \/ CountLabel(lab, c) >= mcs}

\* clusterer.probabilities_ for a labelling: 0 for a noise point and, for a
\* member, either full confidence throughout or a confidence that rises with
\* the document index.
ProbPatterns(lab) ==
    {Concrete([i \in 1..Len(lab) |-> IF lab[i] = NOISE THEN 0 ELSE Milli]),
     Concrete([i \in 1..Len(lab) |->
                IF lab[i] = NOISE THEN 0 ELSE Milli \div (Len(lab) - i + 1)])}

\* The words BERTopic keeps for topic c (get_topic): the features of the
\* topic's documents, by descending class frequency, top_n_words at most.
TopicWords(docs, topics, c) ==
    LET rows  == MaskRows(topics, c)
        all   == SortedSeq(AllFeatures(docs))
        freq  == Concrete([j \in 1..Len(all) |->
                    SumSeq(Concrete([k \in 1..Len(rows) |-> CountOf(docs[rows[k]], all[j])]))])
        order == Reverse(Argsort(freq, "high"))
        words == Concrete([j \in 1..Len(all) |-> all[order[j]]])
    IN  FirstN(SelectSeq(words, LAMBDA t : \E j \in 1..Len(all) : all[j] = t /\ freq[j] > 0),
               top_n_words)

-----------------------------------------------------------------------------
(* Result assembly *)

\* zip(uuids, labels) filtered by label >= c
EpisodeIdsOf_AtLeast(ids, lab, c) ==
    LET n    == Min(Len(ids), Len(lab))
        rows == SortedSeq({i \in 1..n : lab[i] >= c})
    IN  [k \in 1..Len(rows) |-> ids[rows[k]]]

\* zip(uuids, labels) filtered by label == c
EpisodeIdsOf(ids, lab, c) ==
    LET n    == Min(Len(ids), Len(lab))
        rows == SortedSeq({i \in 1..n : lab[i] = c})
    IN  [k \in 1..Len(rows) |-> ids[rows[k]]]

\* main.py build_json_output with the outlier cluster not skipped
BuildJsonOutput_NoSkip(lab, kwdict, ids) ==
    LET kept == LabelSet(lab)
    IN  [k \in {ToString(c) : c \in kept} |->
            LET c == CHOOSE x \in kept : ToString(x) = k
            IN  [keywords   |-> IF c \in DOMAIN kwdict THEN kwdict[c] ELSE << >>,
                 episodeIds |-> EpisodeIdsOf(ids, lab, c)]]

\* main.py build_json_output
BuildJsonOutput(lab, kwdict, ids) ==
    LET kept == {c \in LabelSet(lab) : c # NOISE}
    IN  [k \in {ToString(c) : c \in kept} |->
            LET c == CHOOSE x \in kept : ToString(x) = k
            IN  [keywords   |-> IF c \in DOMAIN kwdict THEN kwdict[c] ELSE << >>,
                 episodeIds |-> EpisodeIdsOf(ids, lab, c)]]

\* persona_topics.py build_json_output
BuildTopicsOutput(model, topics, ids) ==
    LET kept == {c \in DOMAIN model : c # NOISE}
    IN  [topics |->
            [k \in {ToString(c) : c \in kept} |->
                LET c == CHOOSE x \in kept : ToString(x) = k
                IN  [keywords   |-> FirstN(model[c], MaxKeywords),
                     episodeIds |-> EpisodeIdsOf(ids, topics, c)]]]

-----------------------------------------------------------------------------
(* print_cluster_results, main.py:286-353 *)

\* list.sort(key=lambda x: x[k], reverse=True), the reverse forgotten
SortReverse_Ascending(s, k) ==
    LET rank == Concrete([i \in 1..Len(s) |->
                    Cardinality({j \in 1..Len(s) :
                        \/ s[j][k] < s[i][k]
                        \/ s[j][k] = s[i][k] /\ j < i})])
    IN  Concrete([p \in 1..Len(s) |-> s[CHOOSE i \in 1..Len(s) : rank[i] = p - 1]])

\* list.sort(key=lambda x: x[k], reverse=True): descending by component k,
\* entries of equal key in their original order (the sort is stable).
SortReverse(s, k) ==
    LET rank == Concrete([i \in 1..Len(s) |->
                    Cardinality({j \in 1..Len(s) :
                        \/ s[j][k] > s[i][k]
                        \/ s[j][k] = s[i][k] /\ j < i})])
    IN  Concrete([p \in 1..Len(s) |-> s[CHOOSE i \in 1..Len(s) : rank[i] = p - 1]])

\* [(cluster_id, (labels == cluster_id).sum()) for cluster_id in unique_clusters
\*  if cluster_id != -1]; a set of small non-negative integers is iterated in
\* ascending order.
ClusterSizes(lab) ==
    LET ids == SortedSeq(LabelSet(lab) \ {NOISE})
    IN  Concrete([n \in 1..Len(ids) |-> <<ids[n], CountLabel(lab, ids[n])>>])

\* [(uuid, content, prob) for ... in zip(uuids, contents, labels, probabilities)
\*  if label == cluster_id]
ClusterEpisodes(ids, docs, lab, prob, c) ==
    LET n    == Min(Min(Len(ids), Len(docs)), Min(Len(lab), Len(prob)))
        rows == SortedSeq({i \in 1..n : lab[i] = c})
    IN  Concrete([k \in 1..Len(rows) |-> <<ids[rows[k]], docs[rows[k]], prob[rows[k]]>>])

\* print_cluster_results: len(unique_clusters) - (1 if -1 in unique_clusters else 0)
NumClusters(lab) ==
    Cardinality(LabelSet(lab)) - (IF NOISE \in LabelSet(lab) THEN 1 ELSE 0)

\* The clusters print_cluster_results lists, in order, each with the keywords
\* line and the sample episodes it prints.
PrintClusterResults(lab, prob, kwdict, ids, docs) ==
    LET cluster_sizes == SortReverse(ClusterSizes(lab), 2)
    IN  Concrete([n \in 1..Len(cluster_sizes) |->
            LET c == cluster_sizes[n][1]
            IN  [cluster  |-> c,
                 count    |-> cluster_sizes[n][2],
                 keywords |-> IF c \in DOMAIN kwdict THEN <<kwdict[c]>> ELSE << >>,
                 samples  |-> FirstN(SortReverse(ClusterEpisodes(ids, docs, lab, prob, c), 3),
                                     SampleSize)]])

-----------------------------------------------------------------------------
(* The run *)

Empty == << >>

Options == <<tool, entry, min_cluster_size, quiet>>

Locals == <<uuids, contents, embeddings, labels, probabilities, unique_clusters,
            noise_count, feature_names, cluster_locals, keywords_dict, topic_model>>

Earlier == <<previous, replay>>

ClearLocals ==
    /\ uuids' = Empty
    /\ contents' = Empty
    /\ embeddings' = 0
    /\ labels' = Empty
    /\ probabilities' = Empty
    /\ unique_clusters' = 0
    /\ noise_count' = 0
    /\ feature_names' = Empty
    /\ cluster_locals' = Empty
    /\ keywords_dict' = Empty
    /\ topic_model' = Empty

\* An exception leaves the try block (or the called function): the frame's
\* locals are gone.
Raise(kind) ==
    /\ pc' = "raised"
    /\ error' = kind
    /\ ClearLocals

\* if not quiet: click.echo(...), with the test of quiet left out
Echo_Always(msgs) == written' = written \o msgs

\* if not quiet: click.echo(...), for each message of msgs
Echo(msgs) == written' = IF quiet THEN written ELSE written \o msgs

\* main.py prints a header before it connects, persona_topics.py none.
Header == IF tool = "main" THEN <<"header">> ELSE << >>

Init ==
    /\ pc = "start"
    /\ tool \in {"main", "persona_topics"}
    /\ entry = "cli"
    /\ min_cluster_size \in MinClusterSizes
    /\ quiet \in BOOLEAN
    /\ conn = "none"
    /\ closes = 0
    /\ uuids = Empty
    /\ contents = Empty
    /\ embeddings = 0
    /\ labels = Empty
    /\ probabilities = Empty
    /\ unique_clusters = 0
    /\ noise_count = 0
    /\ feature_names = Empty
    /\ cluster_locals = Empty
    /\ keywords_dict = Empty
    /\ topic_model = Empty
    /\ output = Empty
    /\ report = Empty
    /\ num_clusters = 0
    /\ written = << >>
    /\ stages = << >>
    /\ error = "none"
    /\ exit_code = -1
    /\ tie_order = "none"
    /\ previous = Empty
    /\ replay = FALSE

\* main(): the header, then PostgresConnection.__init__ / Neo4jConnection.__init__.
\* The constructor exits with status 1 when the driver cannot connect (no
\* connection) and when the step after the driver call fails (SET search_path,
\* verify_connectivity), leaving what the driver opened unclosed.
Connect ==
    /\ pc = "start"
    /\ entry = "cli"
    /\ \/ /\ conn' = "open"
          /\ pc' = "connected"
          /\ Echo(Header \o <<"connected">>)
          /\ UNCHANGED exit_code
       \/ /\ conn' \in {"none", "abandoned"}   \* except: sys.exit(1)
          /\ pc' = "exited"
          /\ Echo(Header \o <<"connect_failed">>)
          /\ exit_code' = 1
    /\ UNCHANGED <<Options, closes, Locals, output, report, num_clusters, stages, error,
                   tie_order, Earlier>>

\* get_episodes_with_embeddings
Fetch ==
    /\ pc = "connected"
    /\ \/ /\ Raise("SystemExit")        \* no records: sys.exit(1)
          /\ Echo(<<"no_episodes">>)
       \/ /\ Raise("DatabaseError")     \* the query fails
          /\ UNCHANGED written
       \/ \E n \in 1..MaxDocs :
          \E docs \in Corpora(n) :
          \E dims \in [1..n -> Dims] :
            IF \E i \in 1..n : dims[i] # dims[1]
            THEN /\ Raise("ValueError") \* np.array of vectors of unequal length
                 /\ UNCHANGED written
            ELSE /\ uuids' = [i \in 1..n |-> EpisodeId(i)]
                 /\ contents' = docs
                 /\ embeddings' = n
                 /\ pc' = "fetched"
                 /\ Echo(<<"fetched">>)
                 /\ UNCHANGED <<labels, probabilities, unique_clusters, noise_count,
                                feature_names, cluster_locals, keywords_dict,
                                topic_model, error>>
    /\ UNCHANGED <<Options, conn, closes, output, report, num_clusters, stages, exit_code,
                   tie_order, Earlier>>

\* run_hdbscan_clustering, step 1: UMAP(...).fit_transform(embeddings).  With
\* random_state fixed, the embeddings of the earlier invocation reduce as
\* they did then.
Reduce ==
    /\ pc = "fetched"
    /\ tool = "main"
    /\ stages' = Append(stages, "reduce")
    /\ Echo(<<"running", "reducing">>)
    /\ \/ /\ pc' = "reduced"
          /\ UNCHANGED <<Locals, error>>
       \/ /\ ~replay
          /\ Raise("LibraryError")
    /\ UNCHANGED <<Options, conn, closes, output, report, num_clusters, exit_code, tie_order, Earlier>>

\* step 2 started on the fetched embeddings, whether or not step 1 has run
Cluster_BeforeReduce ==
    /\ pc \in {"fetched", "reduced"}
    /\ tool = "main"
    /\ stages' = Append(stages, "cluster")
    /\ \E lab \in Labelings(embeddings, min_cluster_size) :
       \E prob \in ProbPatterns(lab) :
            /\ labels' = lab
            /\ probabilities' = prob
            /\ unique_clusters' = UniqueClusters(lab)
            /\ noise_count' = NoiseCount(lab)
            /\ pc' = "clustered"
            /\ Echo(<<"clustering", "clusters_found", "outliers">>)
            /\ UNCHANGED <<uuids, contents, embeddings, feature_names, cluster_locals,
                           keywords_dict, topic_model, error>>
    /\ UNCHANGED <<Options, conn, closes, output, report, num_clusters, exit_code, tie_order, Earlier>>

\* run_hdbscan_clustering, step 2: HDBSCAN(...).fit_predict(reduced_embeddings)
\* and clusterer.probabilities_.  The clusterer has no randomness of its own:
\* the embeddings of the earlier invocation cluster as they did then.
Cluster ==
    /\ pc = "reduced"
    /\ stages' = Append(stages, "cluster")
    /\ \/ \E lab \in (IF replay THEN {previous[1].labels}
                                ELSE Labelings(embeddings, min_cluster_size)) :
          \E prob \in (IF replay THEN {previous[1].probabilities} ELSE ProbPatterns(lab)) :
            /\ labels' = lab
            /\ probabilities' = prob
            /\ unique_clusters' = UniqueClusters(lab)
            /\ noise_count' = NoiseCount(lab)
            /\ pc' = "clustered"
            /\ Echo(<<"clustering", "clusters_found", "outliers">>)
            /\ UNCHANGED <<uuids, contents, embeddings, feature_names, cluster_locals,
                           keywords_dict, topic_model, error>>
       \/ /\ ~replay
          /\ Raise("LibraryError")
          /\ Echo(<<"clustering">>)
    /\ UNCHANGED <<Options, conn, closes, output, report, num_clusters, exit_code, tie_order, Earlier>>

\* run_hdbscan_clustering, step 3: the vectorizers and the per-cluster loop.
\* argsort orders equal weights the same way throughout a process.
Extract ==
    /\ pc = "clustered"
    /\ stages' = Append(stages, "keywords")
    /\ IF VectorizerRaises(contents)
       THEN /\ Raise("ValueError")
            /\ Echo(<<"extracting">>)
            /\ UNCHANGED tie_order
       ELSE IF KeywordClusters(labels) # {} /\ Len(labels) # Len(contents)
       THEN /\ Raise("IndexError")   \* count_matrix[cluster_mask]
            /\ Echo(<<"extracting">>)
            /\ UNCHANGED tie_order
       ELSE \E names \in {FeatureNames(contents)} :
            \E count_matrix \in {CountMatrix(contents, names)} :
            \E tfidf_matrix \in {TfidfMatrix(contents, names)} :
            \E ids \in {SortedSeq(KeywordClusters(labels))} :
            \E tie \in (IF tie_order = "none" THEN TieBreaks ELSE {tie_order}) :
            \E locs \in {Concrete([k \in 1..Len(ids) |->
                            ClusterLocals(count_matrix, tfidf_matrix,
                                          labels, ids[k], Len(names), tie)])} :
            \E kws \in {Concrete([k \in 1..Len(ids) |->
                            CombineKeywords(locs[k].top_tfidf_indices,
                                            locs[k].top_count_indices,
                                            names, names)])} :
                /\ tie_order' = tie
                /\ feature_names' = names
                /\ cluster_locals' =
                        [c \in Range(ids) |-> locs[CHOOSE k \in 1..Len(ids) : ids[k] = c]]
                /\ keywords_dict' =
                        [c \in Range(ids) |-> kws[CHOOSE k \in 1..Len(ids) : ids[k] = c]]
                /\ pc' = "extracted"
                /\ Echo(<<"extracting", "keywords_done">>)
                /\ UNCHANGED <<uuids, contents, embeddings, labels, probabilities,
                               unique_clusters, noise_count, topic_model, error>>
    /\ UNCHANGED <<Options, conn, closes, output, report, num_clusters, exit_code, Earlier>>

\* run_bertopic_clustering: BERTopic(...).fit_transform(contents, embeddings)
FitTransform ==
    /\ pc = "fetched"
    /\ tool = "persona_topics"
    /\ stages' = Append(stages, "fit_transform")
    /\ \/ \E topics \in Labelings(embeddings, min_cluster_size) :
            /\ labels' = topics
            /\ unique_clusters' = UniqueClusters(topics)
            /\ topic_model' = [c \in LabelSet(topics) |-> TopicWords(contents, topics, c)]
            /\ pc' = "extracted"
            /\ Echo(<<"running", "topics_found">>)
            /\ UNCHANGED <<uuids, contents, embeddings, probabilities, noise_count,
                           feature_names, cluster_locals, keywords_dict, error>>
       \/ /\ Raise("LibraryError")
          /\ Echo(<<"running">>)
    /\ UNCHANGED <<Options, conn, closes, output, report, num_clusters, exit_code, tie_order, Earlier>>

\* The JSON document written as soon as the labels exist
Output_Early ==
    /\ pc \in {"clustered", "extracted"}
    /\ entry = "cli"
    /\ tool = "persona_topics" \/ quiet
    /\ output' = IF tool = "main"
                 THEN BuildJsonOutput(labels, keywords_dict, uuids)
                 ELSE BuildTopicsOutput(topic_model, labels, uuids)
    /\ written' = Append(written, "json")
    /\ stages' = Append(stages, "assemble")
    /\ pc' = "output"
    /\ UNCHANGED <<Options, conn, closes, Locals, report, num_clusters, error, exit_code,
                   tie_order, Earlier>>

\* main(): build_json_output and click.echo(json.dumps(output)); main.py
\* takes this branch with --json, persona_topics.py always.
Output ==
    /\ pc = "extracted"
    /\ entry = "cli"
    /\ tool = "persona_topics" \/ quiet
    /\ output' = IF tool = "main"
                 THEN BuildJsonOutput(labels, keywords_dict, uuids)
                 ELSE BuildTopicsOutput(topic_model, labels, uuids)
    /\ written' = Append(written, "json")
    /\ stages' = Append(stages, "assemble")
    /\ pc' = "output"
    /\ UNCHANGED <<Options, conn, closes, Locals, report, num_clusters, error, exit_code,
                   tie_order, Earlier>>

\* main.py without --json: print_cluster_results and the closing banner
Report ==
    /\ pc = "extracted"
    /\ entry \in {"cli", "report"}
    /\ tool = "main"
    /\ ~quiet
    /\ report' = PrintClusterResults(labels, probabilities, keywords_dict, uuids, contents)
    /\ num_clusters' = NumClusters(labels)
    /\ written' = written \o (IF entry = "cli" THEN <<"report", "complete">>
                                               ELSE <<"report">>)
    /\ stages' = Append(stages, "assemble")
    /\ pc' = "reported"
    /\ UNCHANGED <<Options, conn, closes, Locals, output, error, exit_code,
                   tie_order, Earlier>>

\* close() after the try block instead of in a finally clause: an exception
\* ends the process with the connection as it is
Close_NoFinally ==
    /\ pc \in {"output", "reported", "raised"}
    /\ entry = "cli"
    /\ conn' = IF pc = "raised" THEN conn ELSE "closed"
    /\ closes' = IF pc = "raised" THEN closes ELSE closes + 1
    /\ pc' = IF pc = "raised" THEN "exited" ELSE "done"
    /\ exit_code' = IF pc = "raised" THEN 1 ELSE 0
    /\ written' = written
                    \o (IF quiet \/ pc = "raised" THEN << >> ELSE <<"closed">>)
                    \o (IF error \in {"none", "SystemExit"} THEN << >> ELSE <<"traceback">>)
    /\ ClearLocals
    /\ UNCHANGED <<Options, output, report, num_clusters, stages, error, tie_order, Earlier>>

\* main(): finally: close(); then the process ends, the interpreter printing
\* the traceback of an exception nothing caught.
Close ==
    /\ pc \in {"output", "reported", "raised"}
    /\ entry = "cli"
    /\ conn' = "closed"
    /\ closes' = closes + 1
    /\ pc' = IF pc = "raised" THEN "exited" ELSE "done"
    /\ exit_code' = IF pc = "raised" THEN 1 ELSE 0
    /\ written' = written
                    \o (IF quiet THEN << >> ELSE <<"closed">>)
                    \o (IF error \in {"none", "SystemExit"} THEN << >> ELSE <<"traceback">>)
    /\ ClearLocals
    /\ UNCHANGED <<Options, output, report, num_clusters, stages, error, tie_order, Earlier>>

Next ==
    \/ Connect
    \/ Fetch
    \/ Reduce
    \/ Cluster
    \/ Extract
    \/ FitTransform
    \/ Output
    \/ Report
    \/ Close

Spec == Init /\ [][Next]_vars

\* Once the try block has been left, by its end or by an exception, the
\* finally clause runs.
SpecLive == Init /\ [][Next]_vars /\ WF_vars(Close)

-----------------------------------------------------------------------------
(* run_hdbscan_clustering called directly, with arguments of the caller's *)

InitCall ==
    /\ pc = "call"
    /\ tool = "main"
    /\ entry = "call"
    /\ min_cluster_size \in MinClusterSizes
    /\ quiet \in BOOLEAN
    /\ conn = "none"
    /\ closes = 0
    /\ uuids = Empty
    /\ contents = Empty
    /\ embeddings = 0
    /\ labels = Empty
    /\ probabilities = Empty
    /\ unique_clusters = 0
    /\ noise_count = 0
    /\ feature_names = Empty
    /\ cluster_locals = Empty
    /\ keywords_dict = Empty
    /\ topic_model = Empty
    /\ output = Empty
    /\ report = Empty
    /\ num_clusters = 0
    /\ written = << >>
    /\ stages = << >>
    /\ error = "none"
    /\ exit_code = -1
    /\ tie_order = "none"
    /\ previous = Empty
    /\ replay = FALSE

\* run_hdbscan_clustering(contents, embeddings, min_cluster_size, ...)
CallRun ==
    /\ pc = "call"
    /\ entry = "call"
    /\ \E n \in 1..MaxDocs, rows \in 1..MaxDocs :
       \E docs \in Corpora(n) :
            /\ contents' = docs
            /\ embeddings' = rows
    /\ pc' = "fetched"
    /\ UNCHANGED <<Options, conn, closes, uuids, labels, probabilities,
                   unique_clusters, noise_count, feature_names, cluster_locals,
                   keywords_dict, topic_model, output, report, num_clusters, written, stages,
                   error, exit_code, tie_order, Earlier>>

\* return labels, probabilities, keywords_dict
Return ==
    /\ pc = "extracted"
    /\ entry \in {"call", "repeat"}
    /\ pc' = "returned"
    /\ UNCHANGED <<Options, conn, closes, Locals, output, report, num_clusters, written,
                   stages, error, exit_code, tie_order, Earlier>>

NextCall ==
    \/ CallRun
    \/ Reduce
    \/ Cluster
    \/ Extract
    \/ Return

SpecCall == InitCall /\ [][NextCall]_vars

-----------------------------------------------------------------------------
(* run_hdbscan_clustering called twice in one process, on the same texts *)

InitTwice ==
    /\ pc = "call"
    /\ tool = "main"
    /\ entry = "repeat"
    /\ min_cluster_size \in MinClusterSizes
    /\ quiet \in BOOLEAN
    /\ conn = "none"
    /\ closes = 0
    /\ uuids = Empty
    /\ contents = Empty
    /\ embeddings = 0
    /\ labels = Empty
    /\ probabilities = Empty
    /\ unique_clusters = 0
    /\ noise_count = 0
    /\ feature_names = Empty
    /\ cluster_locals = Empty
    /\ keywords_dict = Empty
    /\ topic_model = Empty
    /\ output = Empty
    /\ report = Empty
    /\ num_clusters = 0
    /\ written = << >>
    /\ stages = << >>
    /\ error = "none"
    /\ exit_code = -1
    /\ tie_order = "none"
    /\ previous = Empty
    /\ replay = FALSE

\* the first call: one embedding row per text
CallFirst ==
    /\ pc = "call"
    /\ entry = "repeat"
    /\ \E n \in 1..MaxRepeatDocs :
       \E docs \in Corpora(n) :
            /\ contents' = docs
            /\ embeddings' = n
    /\ pc' = "fetched"
    /\ UNCHANGED <<Options, conn, closes, uuids, labels, probabilities,
                   unique_clusters, noise_count, feature_names, cluster_locals,
                   keywords_dict, topic_model, output, report, num_clusters, written, stages,
                   error, exit_code, tie_order, Earlier>>

\* The caller keeps what the first call returned and calls again with the
\* same texts and either the same embeddings or other embeddings of as many
\* rows; the function's locals are created anew (main.py:181-240).
CallAgain ==
    /\ pc = "returned"
    /\ entry = "repeat"
    /\ previous = Empty
    /\ previous' = <<[labels        |-> labels,
                     probabilities |-> probabilities,
                     keywords      |-> keywords_dict]>>
    /\ replay' \in BOOLEAN
    /\ pc' = "fetched"
    /\ stages' = << >>
    /\ labels' = Empty
    /\ probabilities' = Empty
    /\ unique_clusters' = 0
    /\ noise_count' = 0
    /\ feature_names' = Empty
    /\ cluster_locals' = Empty
    /\ keywords_dict' = Empty
    /\ UNCHANGED <<Options, conn, closes, uuids, contents, embeddings, topic_model,
                   output, report, num_clusters, written, error, exit_code, tie_order>>

NextTwice ==
    \/ CallFirst
    \/ Reduce
    \/ Cluster
    \/ Extract
    \/ Return
    \/ CallAgain

SpecTwice == InitTwice /\ [][NextTwice]_vars

-----------------------------------------------------------------------------
(* print_cluster_results called directly, with arguments of the caller's *)

\* Membership probabilities a caller may pass.
ProbLevels == {Milli \div 2, Milli}

InitReport ==
    /\ pc = "extracted"
    /\ tool = "main"
    /\ entry = "report"
    /\ min_cluster_size = 2
    /\ quiet = FALSE
    /\ conn = "none"
    /\ closes = 0
    /\ \E n \in 1..MaxReportDocs :
        /\ uuids = [i \in 1..n |-> EpisodeId(i)]
        /\ contents = [i \in 1..n |-> TextPool[1 + (i % Len(TextPool))]]
        /\ embeddings = n
        /\ labels \in [1..n -> ClusterIds \cup {NOISE}]
        /\ probabilities \in [1..n -> ProbLevels]
    /\ unique_clusters = UniqueClusters(labels)
    /\ noise_count = NoiseCount(labels)
    /\ feature_names = Empty
    /\ cluster_locals = Empty
    /\ keywords_dict \in {Empty, [c \in KeywordClusters(labels) |-> <<c + 1>>]}
    /\ topic_model = Empty
    /\ output = Empty
    /\ report = Empty
    /\ num_clusters = 0
    /\ written = << >>
    /\ stages = << >>
    /\ error = "none"
    /\ exit_code = -1
    /\ tie_order = "none"
    /\ previous = Empty
    /\ replay = FALSE

NextReport == Report

SpecReport == InitReport /\ [][NextReport]_vars

-----------------------------------------------------------------------------
(* Properties *)

\* The mapping from cluster-id string to {keywords, episodeIds} a run emitted.
KeyedResult == IF tool = "main" THEN output ELSE output.topics

\* Number of positions of sequence s that hold x.
Occurrences(s, x) == Cardinality({i \in DOMAIN s : s[i] = x})

\* s[-1]
Last(s) == s[Len(s)]

NoDuplicates(s) == \A i, j \in DOMAIN s : s[i] = s[j] => i = j

ClusterSizeSum(kr) ==
    LET keys == SortedSeq({CHOOSE c \in ClusterIds \cup {NOISE} : ToString(c) = k : k \in DOMAIN kr})
    IN  SumSeq(Concrete([n \in 1..Len(keys) |-> Len(kr[ToString(keys[n])].episodeIds)]))

NoiseDocuments == IF tool = "main" THEN noise_count ELSE CountLabel(labels, NOISE)

\* C1. Coverage: in the emitted result every document is either in the
\* episodeIds of exactly one cluster, once, or has the noise label and is in
\* none; the cluster sizes and the noise count add up to the number of
\* documents.
C1_Coverage ==
    pc = "output" =>
        /\ \A i \in DOMAIN uuids :
            LET holders == {k \in DOMAIN KeyedResult :
                                Occurrences(KeyedResult[k].episodeIds, uuids[i]) > 0}
            IN  IF labels[i] = NOISE
                THEN holders = {}
                ELSE /\ Cardinality(holders) = 1
                     /\ \A k \in holders :
                            Occurrences(KeyedResult[k].episodeIds, uuids[i]) = 1
        /\ ClusterSizeSum(KeyedResult) + NoiseDocuments = Len(uuids)

\* C1 witness: a lightweight run that emitted a cluster and counted noise.
C1_Witness ==
    /\ pc = "output"
    /\ tool = "main"
    /\ DOMAIN KeyedResult # {}
    /\ noise_count > 0

\* C2. Result assembly: the emitted result has no key for the noise label,
\* and under every key c the ids are duplicate-free and are exactly the ids
\* uuids[i] of the documents i with labels[i] = c.
C2_ResultAssembly ==
    pc = "output" =>
        /\ ToString(NOISE) \notin DOMAIN KeyedResult
        /\ DOMAIN KeyedResult \subseteq {ToString(c) : c \in ClusterIds}
        /\ \A c \in ClusterIds \cup {NOISE} :
            ToString(c) \in DOMAIN KeyedResult =>
                LET ids == KeyedResult[ToString(c)].episodeIds
                IN  /\ NoDuplicates(ids)
                    /\ Range(ids) = {uuids[i] : i \in {x \in DOMAIN labels : labels[x] = c}}

\* C2 witness: a result with two keys, emitted by the full topic-modeling mode.
C2_Witness ==
    /\ pc = "output"
    /\ tool = "persona_topics"
    /\ Cardinality(DOMAIN KeyedResult) = 2

\* C3. Keyword list length: every cluster's keyword list has at most 10
\* entries, none of them twice.
C3_KeywordListLength ==
    \A c \in DOMAIN keywords_dict :
        /\ Len(keywords_dict[c]) <= MaxKeywords
        /\ NoDuplicates(keywords_dict[c])

\* C3 witness: a cluster whose list was cut at 10 of a larger vocabulary.
C3_Witness ==
    /\ pc = "extracted"
    /\ Len(feature_names) > MaxKeywords
    /\ \E c \in DOMAIN keywords_dict : Len(keywords_dict[c]) = MaxKeywords

\* The names of top_tfidf_indices[:7] and of top_count_indices of cluster c.
TfidfList(c) ==
    LET idx == FirstN(cluster_locals[c].top_tfidf_indices, TopTfidf)
    IN  [i \in 1..Len(idx) |-> feature_names[idx[i]]]

CountList(c) ==
    LET idx == cluster_locals[c].top_count_indices
    IN  [i \in 1..Len(idx) |-> feature_names[idx[i]]]

\* C4. Merge priority: a term of both the top-7 TF-IDF list and the top-15
\* count list is in the final list exactly once, at its TF-IDF position.
C4_MergePriority ==
    \A c \in DOMAIN keywords_dict :
        \A i \in DOMAIN TfidfList(c) :
            TfidfList(c)[i] \in Range(CountList(c)) =>
                /\ Occurrences(keywords_dict[c], TfidfList(c)[i]) = 1
                /\ i \in DOMAIN keywords_dict[c]
                /\ keywords_dict[c][i] = TfidfList(c)[i]

\* C4 witness: a term the two lists rank at different positions.
C4_Witness ==
    /\ pc = "extracted"
    /\ \E c \in DOMAIN keywords_dict :
       \E i \in DOMAIN TfidfList(c), j \in DOMAIN CountList(c) :
            /\ TfidfList(c)[i] = CountList(c)[j]
            /\ i # j
            /\ cluster_locals[c].avg_counts[cluster_locals[c].top_count_indices[j]] > 0

\* The column of a feature name, and cluster c's mean weights of a feature.
ColumnOf(t) == CHOOSE j \in DOMAIN feature_names : feature_names[j] = t

MeanTfidf(c, t) == cluster_locals[c].avg_tfidf[ColumnOf(t)]

MeanCount(c, t) == cluster_locals[c].avg_counts[ColumnOf(t)]

\* Feature u is among the top-15 by mean count whatever the order of equal
\* counts is / for some order of equal counts.
SurelyRanked(c, u) ==
    Cardinality({v \in Range(feature_names) : MeanCount(c, v) >= MeanCount(c, u)})
        <= TopRanked

MaybeRanked(c, u) ==
    Cardinality({v \in Range(feature_names) : MeanCount(c, v) > MeanCount(c, u)})
        < TopRanked

\* C5. Merge algorithm: every cluster's keyword list is, first, the 7 features
\* of highest mean TF-IDF weight (all of them when there are fewer) in
\* descending weight order, and then features of the top-15 by mean count, in
\* descending count order, none already present, a candidate being left out
\* only when the list is full at 10 and holds no entry of lower count.
C5_MergeAlgorithm ==
    \A c \in DOMAIN keywords_dict :
        LET kw   == keywords_dict[c]
            p    == Min(TopTfidf, Len(feature_names))
            tail == (p + 1)..Len(kw)
        IN  /\ p <= Len(kw)
            /\ Len(kw) <= MaxKeywords
            /\ NoDuplicates(kw)
            /\ Range(kw) \subseteq Range(feature_names)
            /\ \A i, j \in 1..p : i < j => MeanTfidf(c, kw[i]) >= MeanTfidf(c, kw[j])
            /\ \A u \in Range(feature_names) \ {kw[i] : i \in 1..p} :
                    \A i \in 1..p : MeanTfidf(c, kw[i]) >= MeanTfidf(c, u)
            /\ \A i, j \in tail : i < j => MeanCount(c, kw[i]) >= MeanCount(c, kw[j])
            /\ \A i \in tail : MaybeRanked(c, kw[i])
            /\ \A u \in Range(feature_names) \ Range(kw) :
                    SurelyRanked(c, u) =>
                        /\ Len(kw) = MaxKeywords
                        /\ \A i \in tail : MeanCount(c, kw[i]) >= MeanCount(c, u)

\* C5 witness: a list of 7 TF-IDF features and 3 count features, the feature
\* of highest count not being the one of highest TF-IDF weight, and a
\* candidate left out.
C5_Witness ==
    /\ pc = "extracted"
    /\ \E c \in DOMAIN keywords_dict :
        /\ Len(keywords_dict[c]) = MaxKeywords
        /\ Len(feature_names) > MaxKeywords
        /\ MeanCount(c, keywords_dict[c][MaxKeywords]) > 0
        /\ keywords_dict[c][1] # CountList(c)[1]
        /\ MeanCount(c, CountList(c)[1]) > MeanCount(c, keywords_dict[c][1])

\* C6. The noise cluster is never given keywords: the keywords mapping has
\* no entry for -1, and no emitted result has a key for -1.
C6_NoiseNeverKeyworded ==
    /\ NOISE \notin DOMAIN keywords_dict
    /\ pc = "output" => ToString(NOISE) \notin DOMAIN KeyedResult

\* C6 witness: a lightweight run with noise documents and a cluster with
\* keywords.
C6_Witness ==
    /\ pc = "output"
    /\ tool = "main"
    /\ NOISE \in LabelSet(labels)
    /\ \E c \in DOMAIN keywords_dict : keywords_dict[c] # << >>

\* C7. Input shape validation, as claimed: a call whose text list and
\* embedding matrix differ in length is rejected before any stage computes.
C7_InputShapeRejected ==
    (entry = "call" /\ pc # "call" /\ Len(contents) # embeddings) => stages = << >>

\* C8. Insufficient data, as claimed: with no more documents than neighbors
\* the reduction fails, and neither clustering nor keyword extraction runs.
C8_InsufficientDataRejected ==
    (tool = "main" /\ embeddings >= 1 /\ embeddings <= n_neighbors) =>
        /\ "cluster" \notin Range(stages)
        /\ "keywords" \notin Range(stages)

AllNoise == labels # << >> /\ \A i \in DOMAIN labels : labels[i] = NOISE

\* C9, as claimed: a labelling of noise only is signalled as
\* DegenerateClusteringError, never returned.
C9_DegenerateSignalled ==
    (tool = "main" /\ AllNoise) => error = "DegenerateClusteringError"

\* C9, amended: a labelling of noise only is returned as a normal result, with
\* no error, a cluster count of 0 and a noise count of all the documents; the
\* keywords mapping stays empty and the emitted result is empty.
C9_AllNoiseReported ==
    (tool = "main" /\ AllNoise) =>
        /\ error = "none"
        /\ pc \in {"clustered", "extracted", "output", "reported", "returned"}
        /\ unique_clusters = 0
        /\ noise_count = Len(labels)
        /\ keywords_dict = Empty
        /\ pc = "output" => output = Empty
        /\ pc = "reported" => report = Empty

\* C9 witness: a run of several documents, all noise, that emitted its result.
C9_Witness ==
    /\ pc = "output"
    /\ tool = "main"
    /\ AllNoise
    /\ Len(labels) >= 2

\* C10. Empty-vocabulary case, as claimed: a cluster all of whose mean TF-IDF
\* weights and mean counts are 0 gets an empty keyword list.
C10_EmptyVocabularyEmptyList ==
    \A c \in DOMAIN keywords_dict :
        (/\ \A j \in DOMAIN feature_names : cluster_locals[c].avg_tfidf[j] = 0
         /\ \A j \in DOMAIN feature_names : cluster_locals[c].avg_counts[j] = 0)
            => keywords_dict[c] = << >>

\* The per-cluster keyword lists of the run, whichever mode produced them.
KeywordLists ==
    [c \in KeywordClusters(labels) |->
        IF tool = "main" THEN keywords_dict[c] ELSE FirstN(topic_model[c], MaxKeywords)]

\* C11. Interchangeable result contract, as claimed: from the same ids, labels
\* and per-cluster keyword lists the two build_json_output functions return
\* the same value, a mapping from cluster-id string directly to
\* {keywords, episodeIds}.
C11_InterchangeableShape ==
    pc = "output" =>
        /\ BuildTopicsOutput(KeywordLists, labels, uuids)
                = BuildJsonOutput(labels, KeywordLists, uuids)
        /\ DOMAIN output \subseteq {ToString(c) : c \in ClusterIds}

\* The ids a caller pairs with the rows of a direct call.
RowIds == [i \in 1..embeddings |-> EpisodeId(i)]

StageOrder ==
    IF tool = "main" THEN <<"reduce", "cluster", "keywords", "assemble">>
                     ELSE <<"fit_transform", "assemble">>

IsPrefix(s, t) == Len(s) <= Len(t) /\ \A i \in DOMAIN s : s[i] = t[i]

\* C13. Stage ordering: the stages that have run are always an initial part of
\* reduction, clustering, keyword extraction, assembly (BERTopic's
\* fit_transform standing for the first three in the full mode), so each runs
\* at most once and in that order; and a step that starts a stage finds the
\* stage before it completed, with its output in place: clustering starts
\* from the reduced embeddings, keyword extraction from a label per row,
\* assembly from a keyword list per non-noise cluster.
C13_StageOrdering ==
    [][/\ IsPrefix(stages', StageOrder)
       /\ stages' # stages =>
            /\ stages' = Append(stages, StageOrder[Len(stages) + 1])
            /\ error = "none"
            /\ Len(stages) = 0 => pc = "fetched" /\ embeddings = Len(contents)
            /\ Last(stages') = "cluster" => pc = "reduced"
            /\ Last(stages') = "keywords" =>
                    pc = "clustered" /\ Len(labels) = embeddings
            /\ Last(stages') = "assemble" =>
                    /\ pc = "extracted"
                    /\ Len(labels) = Len(uuids)
                    /\ tool = "main" => DOMAIN keywords_dict = KeywordClusters(labels)
                    /\ tool # "main" => DOMAIN topic_model = LabelSet(labels)]_vars

\* C13 witness: a lightweight run that has gone through all four stages.
C13_Witness ==
    /\ tool = "main"
    /\ stages = <<"reduce", "cluster", "keywords", "assemble">>
    /\ pc \in {"output", "reported"}

\* Number of cluster outputs (JSON documents, formatted reports) written.
ResultsWritten ==
    Cardinality({i \in DOMAIN written : written[i] \in {"json", "report"}})

\* C14. No partial results: a run writes at most one cluster output; it writes
\* it only with no failure and all stages run, and then the output covers
\* every non-noise cluster; a run that has failed (in fetching, reduction,
\* clustering or keyword extraction) has written none and built none; a run
\* that ends with exit status 0 has written one.
C14_NoPartialResults ==
    /\ ResultsWritten <= 1
    /\ ResultsWritten = 1 =>
        /\ error = "none"
        /\ stages = StageOrder
        /\ pc \in {"output", "reported", "done"}
    /\ pc = "output" =>
        DOMAIN KeyedResult = {ToString(c) : c \in KeywordClusters(labels)}
    /\ pc = "reported" =>
        {report[n].cluster : n \in DOMAIN report} = KeywordClusters(labels)
    /\ error # "none" =>
        /\ ResultsWritten = 0
        /\ output = Empty
        /\ report = Empty
    /\ (pc \in {"output", "reported", "done"} \/ exit_code = 0) => ResultsWritten = 1

\* C14 witness: a verbose run that found clusters, failed in keyword
\* extraction and has ended.
C14_Witness ==
    /\ pc = "exited"
    /\ error = "ValueError"
    /\ stages = <<"reduce", "cluster", "keywords">>
    /\ "clusters_found" \in Range(written)

C16_JsonOnlyOutput ==
    quiet =>
        /\ \A i \in DOMAIN written : written[i] \in {"json", "traceback"}
        /\ error \in {"none", "SystemExit"} => written \in {<< >>, <<"json">>}
        /\ "traceback" \in Range(written) => pc = "exited" /\ exit_code = 1
        /\ pc = "done" => written = <<"json">>

\* C16 witness: a quiet lightweight run that connected, fetched, clustered,
\* wrote its JSON document and closed the connection.
C16_Witness ==
    /\ quiet
    /\ tool = "main"
    /\ pc = "done"
    /\ conn = "closed"
    /\ written = <<"json">>

\* The rows of cluster c.
Members(c) == {i \in DOMAIN labels : labels[i] = c}

\* C17. Reporting order: the report lists every non-noise cluster once, with
\* its population, and never the noise label; the populations do not increase
\* down the list; a cluster's samples are min(3, population) distinct members
\* of the cluster with their own probabilities, in non-increasing probability,
\* and no member left out has a higher probability than a sampled one.
C17_ReportingOrder ==
    pc = "reported" =>
        /\ \A n \in DOMAIN report : report[n].cluster # NOISE
        /\ {report[n].cluster : n \in DOMAIN report} = LabelSet(labels) \ {NOISE}
        /\ Len(report) = Cardinality(LabelSet(labels) \ {NOISE})
        /\ \A m, n \in DOMAIN report : m < n => report[m].count >= report[n].count
        /\ \A n \in DOMAIN report :
            LET c       == report[n].cluster
                samples == report[n].samples
                rows    == {i \in Members(c) : \E k \in DOMAIN samples :
                                samples[k] = <<uuids[i], contents[i], probabilities[i]>>}
            IN  /\ report[n].count = Cardinality(Members(c))
                /\ Len(samples) = Min(SampleSize, Cardinality(Members(c)))
                /\ Cardinality(rows) = Len(samples)
                /\ \A k, l \in DOMAIN samples : k < l => samples[k][3] >= samples[l][3]
                /\ \A i \in Members(c) \ rows :
                    \A k \in DOMAIN samples : probabilities[i] <= samples[k][3]

\* C17 witness: the larger cluster has the larger id and is listed first; it
\* has more than 3 members, one of lower probability is left out, and its
\* samples are not in document order.
C17_Witness ==
    /\ pc = "reported"
    /\ Len(report) = 2
    /\ report[1].cluster > report[2].cluster
    /\ report[1].count > SampleSize
    /\ report[1].count > report[2].count
    /\ report[1].samples[1][1] > report[1].samples[3][1]
    /\ \E i \in Members(report[1].cluster) : probabilities[i] < report[1].samples[1][3]

\* C18. Keyword extraction depends only on the texts and the labels: when a
\* second invocation on the same texts arrives at the labels of the first,
\* it gives every cluster the keywords the first gave it, whether it was
\* passed the same or other embeddings and whatever its probabilities are.
C18_KeywordsFromTextsAndLabels ==
    (/\ previous # Empty
     /\ pc \in {"extracted", "returned"}
     /\ labels = previous[1].labels) =>
        /\ DOMAIN keywords_dict = KeywordClusters(labels)
        /\ \A c \in DOMAIN keywords_dict : keywords_dict[c] = previous[1].keywords[c]

\* C18 witness: a second invocation on other embeddings that came to the same
\* labels with other probabilities, for a cluster that has keywords.
C18_Witness ==
    /\ previous # Empty
    /\ ~replay
    /\ pc = "returned"
    /\ labels = previous[1].labels
    /\ probabilities # previous[1].probabilities
    /\ \E c \in DOMAIN keywords_dict : Len(keywords_dict[c]) >= 2

ProcessEnded == pc \in {"done", "exited"}

\* C19. Connection lifecycle: a connection that was opened (the constructor
\* returned) is in the end closed, exactly once, the process ending after it,
\* whichever way the run goes (result written, exception in fetch, clustering
\* or keyword extraction, no episodes found: exit status 1); it is never
\* closed twice, and no process ends with it open.  While no connection has
\* been opened nothing is fetched and no stage runs, and a process that failed
\* to open one has ended with exit status 1.
C19_ConnectionLifecycle ==
    /\ [](/\ closes <= 1
          /\ conn = "closed" <=> closes = 1
          /\ ProcessEnded => conn # "open"
          /\ (ProcessEnded /\ error # "none") => exit_code = 1 /\ conn = "closed"
          /\ conn \in {"none", "abandoned"} =>
                /\ pc \in {"start", "exited"}
                /\ pc = "exited" => exit_code = 1
                /\ uuids = Empty /\ contents = Empty /\ labels = Empty
                /\ stages = << >>
                /\ error = "none")
    /\ (conn = "open" /\ pc \in {"output", "reported", "raised"})
            ~> (ProcessEnded /\ conn = "closed" /\ closes = 1)

\* C19 witness: no episodes were found: sys.exit(1) inside the try block, the
\* connection closed on the way out, exit status 1.
C19_Witness ==
    /\ pc = "exited"
    /\ error = "SystemExit"
    /\ conn = "closed"
    /\ closes = 1
    /\ exit_code = 1

\* C20. Keyword list size is fixed by the vocabulary: every non-noise cluster
\* has a keyword list, of exactly min(10, V) entries for the V terms of the
\* shared vocabulary, whether or not the terms occur in the cluster's
\* documents.
C20_ListSizeFromVocabulary ==
    pc \in {"extracted", "output", "reported", "returned"} /\ tool = "main" =>
        /\ DOMAIN keywords_dict = KeywordClusters(labels)
        /\ \A c \in DOMAIN keywords_dict :
            Len(keywords_dict[c]) = Min(MaxKeywords, Len(feature_names))

\* C20 witness: two clusters over a vocabulary of fewer than 10 terms, one of
\* them listing a term none of its documents contains.
C20_Witness ==
    /\ pc = "output"
    /\ tool = "main"
    /\ Cardinality(DOMAIN keywords_dict) = 2
    /\ Len(feature_names) < MaxKeywords
    /\ \E c \in DOMAIN keywords_dict :
       \E k \in DOMAIN keywords_dict[c] :
            /\ MeanCount(c, keywords_dict[c][k]) = 0
            /\ MeanTfidf(c, keywords_dict[c][k]) = 0


\* C21: after the keyword loop of run_hdbscan_clustering the keys of
\* keywords_dict are exactly the distinct labels other than -1, and the
\* cluster count computed at main.py:206 is the number of keys; the JSON
\* document has exactly one string key per such label, str(cluster_id), whose
\* "keywords" is keywords_dict[cluster_id] itself (the [] default of
\* keywords_dict.get is never taken); the report prints that same count, one
\* block per key, each with its keywords line.
C21_KeySetAgreement ==
    tool = "main" /\ pc \in {"extracted", "output", "reported"} =>
        LET keys == DOMAIN keywords_dict
        IN  /\ keys = LabelSet(labels) \ {NOISE}
            /\ unique_clusters = Cardinality(keys)
            /\ pc = "output" =>
                /\ DOMAIN output = {ToString(c) : c \in keys}
                /\ Cardinality(DOMAIN output) = Cardinality(keys)
                /\ \A c \in keys : output[ToString(c)].keywords = keywords_dict[c]
            /\ pc = "reported" =>
                /\ num_clusters = Cardinality(keys)
                /\ Len(report) = Cardinality(keys)
                /\ {report[n].cluster : n \in DOMAIN report} = keys
                /\ \A n \in DOMAIN report :
                        report[n].keywords = <<keywords_dict[report[n].cluster]>>

\* A JSON run whose labelling has noise documents beside a cluster with a
\* non-empty keyword list
C21_Witness ==
    /\ tool = "main"
    /\ pc = "output"
    /\ NOISE \in LabelSet(labels)
    /\ Cardinality(LabelSet(labels)) = 2
    /\ Cardinality(DOMAIN output) = 1
    /\ \A c \in DOMAIN keywords_dict : keywords_dict[c] # << >>

=============================================================================
